---- MODULE Spec2Model ----
(***************************************************************************)
(* The users page of the admin dashboard: the view state and its URL       *)
(* codec (UsersPage.tsx), the list query and the status mutation with its  *)
(* optimistic update, rollback and merge (hooks useUsers and               *)
(* useUpdateUserStatus), and the requests built by the API layer           *)
(* (userApi.ts).                                                           *)
(*                                                                         *)
(* Optional values (null / undefined in the source) are sequences of       *)
(* length at most one: None is <<>>, Some(v) is <<v>>.  JavaScript numbers *)
(* are Num(n) = <<n>> or NaN = <<>>.  The values of the numeric URL        *)
(* parameters are sequences of one-character strings, so that parseInt and *)
(* toString are computed character by character.  A list payload is the    *)
(* data field of the response body: its users and its totalCount.          *)
(***************************************************************************)
EXTENDS Integers, Sequences, FiniteSets, TLC

\* ------------------------------------------------------------------ bounds
\* Largest page index the pager offers.
MaxPageIndex == 1
\* Largest number of queries the query cache holds at a time.
MaxQueries == 2
\* Largest number of requests of cancelled fetches that are out for a query.
MaxAbandoned == 1

\* --------------------------------------------------------------- constants
\* The page size used when the URL has none, and the debounce delay (ms).
DefaultPageSize == 10
DebounceDelay == 300

\* ------------------------------------------------------- values and numbers
None == <<>>
Some(v) == <<v>>

NaN == <<>>
Num(n) == <<n>>

\* x + 1 and x - 1 on JavaScript numbers: NaN is absorbing.
Add1(x) == IF x = NaN THEN NaN ELSE Num(x[1] + 1)
Sub1(x) == IF x = NaN THEN NaN ELSE Num(x[1] - 1)

\* Math.max(0, x): NaN if the argument is NaN.
MathMax0(x) == IF x = NaN THEN NaN ELSE IF x[1] < 0 THEN Num(0) ELSE x

DigitChars == <<"0", "1", "2", "3", "4", "5", "6", "7", "8", "9">>
IsDigit(c) == \E i \in 1..10 : DigitChars[i] = c
DigitVal(c) == (CHOOSE i \in 1..10 : DigitChars[i] = c) - 1

RECURSIVE NatToString(_)
NatToString(n) ==
  IF n < 10 THEN <<DigitChars[n + 1]>>
  ELSE NatToString(n \div 10) \o <<DigitChars[(n % 10) + 1]>>

\* Number.prototype.toString() of an integer or NaN.
NumToString(x) ==
  IF x = NaN THEN <<"N", "a", "N">>
  ELSE IF x[1] < 0 THEN <<"-">> \o NatToString(0 - x[1])
  ELSE NatToString(x[1])

RECURSIVE SkipWhitespace(_)
SkipWhitespace(s) ==
  IF s # <<>> /\ Head(s) = " " THEN SkipWhitespace(Tail(s)) ELSE s

RECURSIVE DigitsValue(_, _)
DigitsValue(s, acc) ==
  IF s = <<>> \/ ~IsDigit(Head(s)) THEN acc
  ELSE DigitsValue(Tail(s), acc * 10 + DigitVal(Head(s)))

\* parseInt(s) without radix, on decimal input: leading whitespace is skipped,
\* an optional sign is read, then the longest run of digits; NaN when there
\* is no digit at that place.  Trailing characters are ignored.
ParseInt(s) ==
  LET t == SkipWhitespace(s)
      neg == t # <<>> /\ Head(t) = "-"
      u == IF t # <<>> /\ Head(t) \in {"-", "+"} THEN Tail(t) ELSE t
  IN IF u = <<>> \/ ~IsDigit(Head(u)) THEN NaN
     ELSE IF neg THEN Num(0 - DigitsValue(u, 0)) ELSE Num(DigitsValue(u, 0))

\* searchParams.get(name) || dflt: a missing or an empty value gives dflt.
\* The empty value is "" for text parameters and <<>> for numeric ones.
GetOr(opt, empty, dflt) == IF opt = None \/ opt[1] = empty THEN dflt ELSE opt[1]

\* ------------------------------------------------------------------- state
VARIABLES
  pageVersion,           \* 1: first UsersPage (no sort, hook without params); 2: second
  searchParams,          \* the URL query string, as a record of optional values
  searchQuery,           \* raw text of the search input
  statusFilter,          \* status filter of the view
  pagination,            \* [pageIndex, pageSize]
  sorting,               \* MRT sorting state: a sequence of [id, desc]
  debouncedSearchQuery,  \* value of useDebounce(searchQuery, 300)
  timer,                 \* ms left on the pending debounce timer, 0 if none
  queries,               \* the query cache: params -> [data, invalidated, fetching, error]
  server,                \* the status of every user at the server
  mutation,              \* the status mutation of the page's mutation observer
  snackbar               \* the notification enqueued by the step just taken, if any

viewVars == <<searchQuery, statusFilter, pagination, sorting, debouncedSearchQuery, timer>>
vars == <<pageVersion, searchParams, searchQuery, statusFilter, pagination, sorting,
          debouncedSearchQuery, timer, queries, server, mutation, snackbar>>

\* ------------------------------------------------------------- URL codec
\* The state initialisers of UsersPage: the view state read from the URL.
\* The first UsersPage has no sorting state.
Decode(u, version) ==
  [searchQuery |-> GetOr(u.search, "", ""),
   statusFilter |-> GetOr(u.status, "", "all"),
   pagination |->
     [pageIndex |-> MathMax0(Sub1(ParseInt(GetOr(u.page, <<>>, <<"1">>)))),
      pageSize |-> ParseInt(GetOr(u.pageSize, <<>>, NumToString(Num(DefaultPageSize))))],
   sorting |->
     LET sortColumn == GetOr(u.sortBy, "", "")
         sortOrder == GetOr(u.sortOrder, "", "")
     IN IF version = 2 /\ sortColumn # "" /\ sortOrder # ""
        THEN <<[id |-> sortColumn, desc |-> (sortOrder = "desc")]>>
        ELSE <<>>]

\* A sync effect that writes the status whatever it is.
EncodeEveryStatus(pag, status, debounced, sort) ==
  [page |-> Some(NumToString(Add1(pag.pageIndex))),
   pageSize |-> Some(NumToString(pag.pageSize)),
   status |-> Some(status),
   search |-> IF debounced # "" THEN Some(debounced) ELSE None,
   sortBy |-> IF Len(sort) > 0 THEN Some(sort[1].id) ELSE None,
   sortOrder |-> IF Len(sort) > 0 THEN Some(IF sort[1].desc THEN "desc" ELSE "asc") ELSE None]

\* A sync effect that writes sortOrder for a descending sort only.
EncodeDescendingOnly(pag, status, debounced, sort) ==
  [page |-> Some(NumToString(Add1(pag.pageIndex))),
   pageSize |-> Some(NumToString(pag.pageSize)),
   status |-> IF status # "all" THEN Some(status) ELSE None,
   search |-> IF debounced # "" THEN Some(debounced) ELSE None,
   sortBy |-> IF Len(sort) > 0 THEN Some(sort[1].id) ELSE None,
   sortOrder |-> IF Len(sort) > 0 /\ sort[1].desc THEN Some("desc") ELSE None]

\* The URL sync effect: the query string written for a view state.
Encode(pag, status, debounced, sort) ==
  [page |-> Some(NumToString(Add1(pag.pageIndex))),
   pageSize |-> Some(NumToString(pag.pageSize)),
   status |-> IF status # "all" THEN Some(status) ELSE None,
   search |-> IF debounced # "" THEN Some(debounced) ELSE None,
   sortBy |-> IF Len(sort) > 0 THEN Some(sort[1].id) ELSE None,
   sortOrder |-> IF Len(sort) > 0 THEN Some(IF sort[1].desc THEN "desc" ELSE "asc") ELSE None]

\* A params object is the sequence of its properties, <<name, value>>, in the
\* order in which they were set; the value is None for undefined.
ParamNames == {"page", "pageSize", "query", "status", "sortBy", "sortOrder"}

\* obj[name]: the value of the property of that name, None when there is none.
Prop(obj, name) ==
  IF \E i \in DOMAIN obj : obj[i][1] = name
  THEN obj[CHOOSE i \in DOMAIN obj :
             /\ obj[i][1] = name
             /\ \A j \in DOMAIN obj : obj[j][1] = name => j <= i][2]
  ELSE None

\* The params object UsersPage passes to useUsers and useUpdateUserStatus.
\* The first UsersPage sets no sort properties, the second sets them to
\* undefined when the table is not sorted.
ListParams(pag, status, debounced, sort) ==
  LET unsorted == << <<"page", Some(Add1(pag.pageIndex))>>,
                     <<"pageSize", Some(pag.pageSize)>>,
                     <<"query", Some(debounced)>>,
                     <<"status", Some(status)>> >>
  IN IF pageVersion = 2
     THEN unsorted \o
          << <<"sortBy", IF Len(sort) > 0 THEN Some(sort[1].id) ELSE None>>,
             <<"sortOrder", IF Len(sort) > 0
                            THEN Some(IF sort[1].desc THEN "desc" ELSE "asc") ELSE None>> >>
     ELSE unsorted

CurrentParams == ListParams(pagination, statusFilter, debouncedSearchQuery, sorting)

\* The query string fetchUsers builds from the properties of its params.
FetchUsersRequest(params) ==
  [page |-> Some(NumToString(params.page[1])),
   pageSize |-> Some(NumToString(params.pageSize[1])),
   query |-> IF params.query # None /\ params.query[1] # "" THEN params.query ELSE None,
   status |-> IF params.status # None /\ params.status[1] # "" /\ params.status[1] # "all"
              THEN params.status ELSE None,
   sortBy |-> IF params.sortBy # None /\ params.sortBy[1] # "" THEN params.sortBy ELSE None,
   sortOrder |-> IF params.sortBy # None /\ params.sortBy[1] # ""
                    /\ params.sortOrder # None /\ params.sortOrder[1] # ""
                 THEN params.sortOrder ELSE None]

\* ------------------------------------------------------------ the server
Users == {"u1", "u2"}
Statuses == {"active", "inactive"}
UserOrder == <<"u1", "u2">>
UserName(u) == IF u = "u1" THEN "Ann" ELSE "Bob"

\* The record of user u as the server holds it.
ServerUser(srv, u) == [userId |-> u, name |-> UserName(u), status |-> srv[u]]

RECURSIVE Reverse(_)
Reverse(s) == IF s = <<>> THEN <<>> ELSE Reverse(Tail(s)) \o <<Head(s)>>

\* GET /users: the response body for a request.  The status filter keeps the
\* users of that status, the query keeps the users whose name contains it
\* (the query "a" matches Ann only), a descending sort reverses the order and
\* every page after the first is empty.
ServerPage(req, srv) ==
  LET Matches(u) ==
        /\ (req.status # None => srv[u] = req.status[1])
        /\ (req.query # None => u = "u1")
      found == SelectSeq(UserOrder, Matches)
      sorted == IF req.sortBy # None /\ req.sortOrder = Some("desc")
                THEN Reverse(found) ELSE found
      onPage == IF req.page = Some(<<"1">>) THEN sorted ELSE <<>>
  IN [users |-> [i \in DOMAIN onPage |-> ServerUser(srv, onPage[i])],
      totalCount |-> Len(found)]

\* ------------------------------------------------------ the API functions
\* A JSON value, as far as the error handling looks at it: its type and the
\* value of its property message, None when it has none.
JsonObject(message) == [type |-> "object", message |-> message]
JsonNull == [type |-> "null", message |-> None]
JsonString == [type |-> "string", message |-> None]
EmptyObject == JsonObject(None)

\* response.json(): the value of the body text, or a SyntaxError.
JsonParse(text) ==
  IF text = "{\"message\":\"Invalid page\"}" THEN [ok |-> TRUE, value |-> JsonObject(Some("Invalid page"))]
  ELSE IF text = "{\"message\":\"\"}" THEN [ok |-> TRUE, value |-> JsonObject(Some(""))]
  ELSE IF text = "{}" THEN [ok |-> TRUE, value |-> EmptyObject]
  ELSE IF text = "null" THEN [ok |-> TRUE, value |-> JsonNull]
  ELSE IF text = "\"oops\"" THEN [ok |-> TRUE, value |-> JsonString]
  ELSE [ok |-> FALSE, value |-> JsonNull]

\* contentType?.includes('application/json')
JsonContentTypes == {"application/json", "application/json; charset=utf-8"}

\* new ApiError(status, statusText, message, details), and an error of
\* another class, which has a name only.
ApiError(status, statusText, message, details) ==
  [name |-> "ApiError", status |-> Some(status), statusText |-> Some(statusText),
   message |-> message, details |-> details]
Thrown(name) ==
  [name |-> name, status |-> None, statusText |-> None, message |-> "", details |-> None]

\* handleApiError(response, context): the error it throws.  The details are
\* the parsed body of a JSON response, {} when the body is not JSON or does
\* not parse; reading details.message of a null body is a TypeError.
handleApiError(response, context) ==
  LET parsed == JsonParse(response.body)
      details == IF response.contentType \in JsonContentTypes /\ parsed.ok
                 THEN parsed.value ELSE EmptyObject
  IN IF details.type = "null" THEN Thrown("TypeError")
     ELSE ApiError(response.status, response.statusText,
                   IF details.message # None /\ details.message[1] # ""
                   THEN details.message[1]
                   ELSE context \o ": " \o response.statusText,
                   Some(details))

\* What fetch() settles with: a rejection with an error of the given name (a
\* TypeError when no response is reached, a TimeoutError when the 30 s of
\* AbortSignal.timeout are over), or a response.
Rejected(name) == [rejected |-> Some(name), response |-> None]
Responded(status, statusText, contentType, body) ==
  [rejected |-> None,
   response |-> Some([status |-> status, statusText |-> statusText,
                      contentType |-> contentType, body |-> body])]

\* response.ok
Ok(response) == response.status \in 200..299

\* The error fetchUsers and updateUserStatus throw for what fetch() settles
\* with, None when they return the body: an ApiError is thrown on as it is,
\* a TypeError becomes an ApiError of status 0, any other error is thrown on.
ApiFailure(outcome, context, networkMessage) ==
  LET caught == IF outcome.rejected # None THEN Some(Thrown(outcome.rejected[1]))
                ELSE IF ~Ok(outcome.response[1])
                     THEN Some(handleApiError(outcome.response[1], context))
                     ELSE IF JsonParse(outcome.response[1].body).ok THEN None
                          ELSE Some(Thrown("SyntaxError"))
  IN IF caught = None THEN None
     ELSE IF caught[1].name = "ApiError" THEN caught
     ELSE IF caught[1].name = "TypeError"
          THEN Some(ApiError(0, "Network Error", networkMessage, None))
          ELSE caught

fetchUsers(outcome) ==
  ApiFailure(outcome, "Failed to fetch users",
             "Network request failed. Please check your connection.")
updateUserStatus(outcome) ==
  ApiFailure(outcome, "Failed to update user status",
             "Network request failed. Please try again.")

\* ------------------------------------------------------- the query cache
\* userQueryKeys.list(params): the key of the list query for params.  The
\* cache tells keys apart by their hash, which lists the properties of params
\* by name, whatever their order, and leaves out the undefined ones: the key
\* is the value of every property, None for one that is undefined or not set.
ListKey(params) == [name \in ParamNames |-> Prop(params, name)]

\* A query holds its data and its error, if any, whether its data was
\* invalidated, whether staleTime has elapsed since its data was written, and
\* whether a fetch is running; of the running fetch, the
\* number of failed attempts, the reason of the last failure and the wait (ms)
\* before the next attempt (0 while a request is out); and the number of
\* requests still out whose fetch was cancelled.  outcome is what the last
\* request of the running or the last fetch settled with, when it failed.
NewQuery ==
  [data |-> None, invalidated |-> FALSE, elapsed |-> FALSE, fetching |-> FALSE,
   error |-> None,
   failureCount |-> 0, failureReason |-> None, wait |-> 0, abandoned |-> 0,
   outcome |-> None]

\* useQuery is given no retry option: the default of the library is 3
\* retries, whatever the failure.
QueryRetry == 3
ShouldRetryQuery(failureCount, failure) == failureCount < QueryRetry

RECURSIVE Pow2(_)
Pow2(n) == IF n = 0 THEN 1 ELSE 2 * Pow2(n - 1)

\* useQuery is given no retryDelay option: the default of the library is
\* Math.min(1000 * 2 ** failureCount, 30000).
RetryDelay(failureCount) ==
  IF 1000 * Pow2(failureCount) < 30000 THEN 1000 * Pow2(failureCount) ELSE 30000

\* A fetch of the query starts: a query without data drops its error.
StartFetch(q) ==
  [q EXCEPT !.fetching = TRUE, !.failureCount = 0, !.failureReason = None, !.wait = 0,
            !.outcome = None,
            !.error = IF q.data = None THEN None ELSE q.error]

\* queryClient.getQueryData(key)
GetQueryData(qs, key) == IF key \in DOMAIN qs THEN qs[key].data ELSE None

\* queryClient.setQueryData(key, payload): a full replace; the query is
\* created when the cache has none, and the data is marked as not invalidated
\* and as written now.
SetQueryData(qs, key, payload) ==
  LET q == IF key \in DOMAIN qs THEN qs[key] ELSE NewQuery
  IN [k \in DOMAIN qs \cup {key} |->
        IF k = key THEN [q EXCEPT !.data = Some(payload), !.invalidated = FALSE,
                                  !.elapsed = FALSE, !.error = None]
        ELSE qs[k]]

\* refetch() of the query result, with the default cancelRefetch: a running
\* fetch of a query that has data is cancelled and a new fetch starts; the
\* request of the cancelled fetch, which fetchUsers gave no abort signal,
\* stays out and its response is ignored.  A running fetch of a query
\* without data is joined.
Refetch(q) ==
  IF q.fetching /\ q.data = None THEN q
  ELSE StartFetch([q EXCEPT !.abandoned = IF q.fetching /\ q.wait = 0 THEN @ + 1 ELSE @])

\* useUsers(params) when the observer starts watching the key: a query with
\* no data or with stale data is fetched, unless a fetch of it is running.
\* Data is stale when it was invalidated or when staleTime (5 minutes) has
\* elapsed since it was written.
IsStale(q) == q.data = None \/ q.invalidated \/ q.elapsed

\* An observer that fetches the query whether its data is stale or not.
ObserveQueryAlwaysFetching(qs, key) ==
  LET q == IF key \in DOMAIN qs THEN qs[key] ELSE NewQuery
  IN [k \in DOMAIN qs \cup {key} |->
        IF k = key THEN IF ~q.fetching THEN StartFetch(q) ELSE q ELSE qs[k]]

ObserveQuery(qs, key) ==
  LET q == IF key \in DOMAIN qs THEN qs[key] ELSE NewQuery
  IN [k \in DOMAIN qs \cup {key} |->
        IF k = key
        THEN IF IsStale(q) /\ ~q.fetching THEN StartFetch(q) ELSE q
        ELSE qs[k]]

\* The cache holds at most MaxQueries queries: the view moves to a key only
\* when the cache has it or has room for it.
CanObserve(key) == key \in DOMAIN queries \/ Cardinality(DOMAIN queries) < MaxQueries

\* ---------------------------------------------------- the status mutation
\* An updater that sets the status of every record of the list.
OptimisticUpdateEveryRecord(old, userId, status) ==
  [old EXCEPT !.users = [i \in DOMAIN old.users |-> [old.users[i] EXCEPT !.status = status]]]

\* The updater of onMutate: the status of the record of userId is replaced.
OptimisticUpdate(old, userId, status) ==
  [old EXCEPT !.users =
     [i \in DOMAIN old.users |->
        IF old.users[i].userId = userId
        THEN [old.users[i] EXCEPT !.status = status]
        ELSE old.users[i]]]

\* { ...u, ...updatedUser }: the fields of updatedUser override those of u.
Spread(u, updatedUser) ==
  [f \in DOMAIN u \cup DOMAIN updatedUser |->
     IF f \in DOMAIN updatedUser THEN updatedUser[f] ELSE u[f]]

\* An updater that merges the server's record into every record of the list.
MergeUserIntoEveryRecord(old, updatedUser) ==
  [old EXCEPT !.users = [i \in DOMAIN old.users |-> Spread(old.users[i], updatedUser)]]

\* The updater of onSuccess: the server's record is merged into its record.
MergeUser(old, updatedUser) ==
  [old EXCEPT !.users =
     [i \in DOMAIN old.users |->
        IF old.users[i].userId = updatedUser.userId
        THEN Spread(old.users[i], updatedUser)
        ELSE old.users[i]]]

NoContext == [previousData |-> None, params |-> None]

\* onMutate of useUpdateUserStatus(currentParams): the queries and the
\* context it leaves.  hookParams is None when the hook was given no params.
OnMutate(qs, hookParams, userId, status) ==
  IF hookParams # None
  THEN LET key == ListKey(hookParams[1])
           prevData == GetQueryData(qs, key)
       IN [queries |-> IF prevData = None THEN qs
                       ELSE SetQueryData(qs, key, OptimisticUpdate(prevData[1], userId, status)),
           context |-> [previousData |-> prevData, params |-> hookParams]]
  ELSE [queries |-> qs, context |-> NoContext]

\* An onError that leaves the cache as the optimistic update left it.
OnErrorWithoutRollback(qs, context) == qs

\* An onError that writes back the first record of the snapshot and keeps
\* the other records as the cache has them.
OnErrorMergingSnapshot(qs, context) ==
  IF context.previousData # None /\ context.params # None
  THEN LET key == ListKey(context.params[1])
           now == GetQueryData(qs, key)
           snapshot == context.previousData[1]
       IN IF now = None THEN SetQueryData(qs, key, snapshot)
          ELSE SetQueryData(qs, key,
                 [now[1] EXCEPT !.users =
                    [i \in DOMAIN now[1].users |->
                       IF i = 1 /\ i \in DOMAIN snapshot.users
                       THEN snapshot.users[i] ELSE now[1].users[i]]])
  ELSE qs

\* onError of useUpdateUserStatus: the snapshot is written back.
OnError(qs, context) ==
  IF context.previousData # None /\ context.params # None
  THEN SetQueryData(qs, ListKey(context.params[1]), context.previousData[1])
  ELSE qs

\* An onSuccess that writes a list of the server's record alone when the
\* cache has no data for the params.
OnSuccessCreatingEntry(qs, hookParams, updatedUser) ==
  IF hookParams # None
  THEN LET key == ListKey(hookParams[1])
           old == GetQueryData(qs, key)
       IN IF old = None
          THEN SetQueryData(qs, key, [users |-> <<updatedUser>>, totalCount |-> 1])
          ELSE SetQueryData(qs, key, MergeUser(old[1], updatedUser))
  ELSE qs

\* An onSuccess that marks every query of the cache as invalidated.
OnSuccessInvalidating(qs, hookParams, updatedUser) ==
  [k \in DOMAIN qs |-> [qs[k] EXCEPT !.invalidated = TRUE]]

\* onSuccess of useUpdateUserStatus(currentParams), given the server's record.
OnSuccess(qs, hookParams, updatedUser) ==
  IF hookParams # None
  THEN LET key == ListKey(hookParams[1])
           old == GetQueryData(qs, key)
       IN IF old = None THEN qs ELSE SetQueryData(qs, key, MergeUser(old[1], updatedUser))
  ELSE qs

\* A retry option of one: the first failed attempt is repeated.
ShouldRetryOnce(failureCount) == failureCount < 2

\* useMutation is given no retry option: a failed attempt is not repeated.
ShouldRetry(failureCount) == FALSE

\* The params the hook is called with on the current render: the second
\* UsersPage passes the params of the view, the first passes none.  A pending
\* mutation runs the callbacks of the latest render of its observer.
HookParams == IF pageVersion = 2 THEN Some(CurrentParams) ELSE None

\* The mutation the hook reports on, and in other the mutation, if any, that
\* a further call of mutate has started while that one was pending.
IdleMutation ==
  [phase |-> "idle", userId |-> None, status |-> None, context |-> NoContext, requests |-> 0,
   other |-> None]

\* The mutation the hook reports on has settled: the other one, if any, is
\* left as the pending mutation, its request out.
Settle(m) ==
  IF m.other = None THEN IdleMutation
  ELSE [phase |-> "request", userId |-> Some(m.other[1].userId),
        status |-> Some(m.other[1].status), context |-> m.other[1].context,
        requests |-> 1, other |-> None]

isUpdating == mutation.phase # "idle"

\* What UserActions renders in the row of a user: the progress indicator
\* while isUpdating, in place of the button and of the confirmation dialog.
UserActions == IF isUpdating THEN "CircularProgress" ELSE "IconButton"

\* The rows the page renders: none while the query has an error or no data.
RenderedUsers ==
  LET key == ListKey(CurrentParams)
  IN IF key \in DOMAIN queries /\ queries[key].error = None /\ queries[key].data # None
     THEN queries[key].data[1].users ELSE <<>>

\* ------------------------------------------------------------------ inputs
EmptyUrl ==
  [page |-> None, pageSize |-> None, status |-> None, search |-> None,
   sortBy |-> None, sortOrder |-> None]

\* The query strings the page is opened with: none, a complete one, and
\* ones with an unknown status, with pages and page sizes that are no
\* positive integers, and with one half of the sort pair.
MountUrls ==
  { EmptyUrl,
    [EmptyUrl EXCEPT !.page = Some(<<"2">>), !.pageSize = Some(<<"2", "5">>),
                     !.status = Some("inactive"), !.search = Some("a"),
                     !.sortBy = Some("name"), !.sortOrder = Some("desc")],
    [EmptyUrl EXCEPT !.status = Some("banana")],
    [EmptyUrl EXCEPT !.page = Some(<<"a">>), !.pageSize = Some(<<"x">>)],
    [EmptyUrl EXCEPT !.page = Some(<<"0">>), !.pageSize = Some(<<"-", "5">>)],
    [EmptyUrl EXCEPT !.page = Some(<<"-", "1">>), !.sortBy = Some("name")],
    [EmptyUrl EXCEPT !.page = Some(<<"2", "a">>), !.sortOrder = Some("asc")] }

SearchTexts == {"", "a"}
StatusFilters == {"all", "active", "inactive"}
PageSizes == {DefaultPageSize}
Paginations == [pageIndex : {Num(i) : i \in 0..MaxPageIndex}, pageSize : {Num(n) : n \in PageSizes}]
Sortings == { <<>>, <<[id |-> "name", desc |-> FALSE]>>, <<[id |-> "name", desc |-> TRUE]>> }

\* The inputs of the specification of the mutation: the status filter is
\* set to the value it has, the sorting is not touched, and the rows of one
\* user are clicked.
KeptStatusFilters == {"all"}
ToggledUsers == {"u1"}
InitialServer == [u \in Users |-> IF u = "u1" THEN "active" ELSE "inactive"]

\* Params objects of the type useUsers takes: page and pageSize are set,
\* query, status, sortBy and sortOrder are set, undefined or left out, and
\* the properties come in any order.
FirstPage == << <<"page", Some(Num(1))>>, <<"pageSize", Some(Num(DefaultPageSize))>> >>
CallerParams ==
  { FirstPage,
    FirstPage \o << <<"query", Some("")>>, <<"status", Some("all")>> >>,
    << <<"status", Some("all")>>, <<"query", Some("")>> >> \o FirstPage,
    FirstPage \o << <<"query", Some("")>>, <<"status", Some("all")>>,
                    <<"sortBy", None>>, <<"sortOrder", None>> >>,
    FirstPage \o << <<"status", Some("all")>> >>,
    FirstPage \o << <<"status", Some("active")>> >>,
    << <<"status", Some("active")>> >> \o FirstPage \o << <<"query", Some("")>> >>,
    FirstPage \o << <<"sortBy", Some("name")>> >>,
    FirstPage \o << <<"sortOrder", Some("asc")>>, <<"sortBy", Some("name")>> >> }

\* Failed requests of the three kinds the retry policy is about: a 4xx
\* response, a 5xx response and no response.
Failures ==
  { Responded(400, "Bad Request", "application/json", "{\"message\":\"Invalid page\"}"),
    Responded(500, "Internal Server Error", "application/json", "{}"),
    Rejected("TypeError") }

\* What a request can settle with when it fails: no response, the timeout,
\* 4xx and 5xx responses with and without a JSON body, and a 200 response
\* whose body does not parse.
ErrorBodies ==
  { <<"application/json", "{\"message\":\"Invalid page\"}">>,
    <<"application/json; charset=utf-8", "{\"message\":\"\"}">>,
    <<"application/json", "{}">>,
    <<"application/json", "null">>,
    <<"application/json", "\"oops\"">>,
    <<"application/json", "<html>">>,
    <<"application/json", "">>,
    <<"text/html", "<html>">>,
    <<"text/plain", "{\"message\":\"Invalid page\"}">>,
    <<"", "">> }
ErrorStatuses == { <<404, "Not Found">>, <<500, "Internal Server Error">> }
Outcomes ==
  { Rejected("TypeError"), Rejected("TimeoutError"),
    Responded(200, "OK", "application/json", "<html>") }
  \cup { Responded(st[1], st[2], b[1], b[2]) : st \in ErrorStatuses, b \in ErrorBodies }

\* -------------------------------------------------------------------- Init
\* The page is opened with the query string u: the state initialisers read
\* the URL, the URL sync effect writes it and useUsers starts the first fetch.
Mount(u) ==
  \E version \in {1, 2} :
    LET s == Decode(u, version)
    IN /\ pageVersion = version
       /\ searchQuery = s.searchQuery
       /\ statusFilter = s.statusFilter
       /\ pagination = s.pagination
       /\ sorting = s.sorting
       /\ debouncedSearchQuery = s.searchQuery
       /\ timer = 0
       /\ searchParams = Encode(s.pagination, s.statusFilter, s.searchQuery, s.sorting)
       /\ queries = ObserveQuery(<<>>, ListKey(ListParams(s.pagination, s.statusFilter,
                                                           s.searchQuery, s.sorting)))
       /\ server = InitialServer
       /\ mutation = IdleMutation
       /\ snackbar = "none"

Init == Mount(EmptyUrl)

InitUrl == \E u \in MountUrls : Mount(u)

\* ------------------------------------------------------------ view actions
\* What follows a change of the view state: the URL sync effect writes the
\* URL, and useUsers watches the query of the new params, whose data may be
\* older than staleTime.
Render(pag, status, debounced, sort) ==
  LET key == ListKey(ListParams(pag, status, debounced, sort))
  IN /\ CanObserve(key)
     /\ searchParams' = Encode(pag, status, debounced, sort)
     /\ IF key = ListKey(CurrentParams)
        THEN queries' = queries
        ELSE queries' = ObserveQuery(queries, key)

\* The page renders its error panel, in place of the filters and the table,
\* while the list query has an error.
ErrorShown ==
  /\ ListKey(CurrentParams) \in DOMAIN queries
  /\ queries[ListKey(CurrentParams)].error # None

\* A handleSearchChange whose render writes the text of the input to the URL.
handleSearchChangeRawUrl(value) ==
  /\ ~ErrorShown
  /\ value # searchQuery
  /\ searchQuery' = value
  /\ pagination' = [pagination EXCEPT !.pageIndex = Num(0)]
  /\ timer' = DebounceDelay
  /\ Render(pagination', statusFilter, value, sorting)
  /\ snackbar' = "none"
  /\ UNCHANGED <<pageVersion, statusFilter, sorting, debouncedSearchQuery, server,
                 mutation>>

handleSearchChange(value) ==
  /\ ~ErrorShown
  /\ value # searchQuery
  /\ searchQuery' = value
  /\ pagination' = [pagination EXCEPT !.pageIndex = Num(0)]
  /\ timer' = DebounceDelay
  /\ Render(pagination', statusFilter, debouncedSearchQuery, sorting)
  /\ snackbar' = "none"
  /\ UNCHANGED <<pageVersion, statusFilter, sorting, debouncedSearchQuery, server,
                 mutation>>

\* A timer whose every tick hands the text of the input on.
TickWithoutWaiting(d) ==
  /\ timer > 0
  /\ timer' = IF timer > d THEN timer - d ELSE 0
  /\ debouncedSearchQuery' = searchQuery
  /\ Render(pagination, statusFilter, searchQuery, sorting)
  /\ snackbar' = "none"
  /\ UNCHANGED <<pageVersion, searchQuery, statusFilter, pagination, sorting, server,
                 mutation>>

\* d ms pass on the debounce timer; when it runs out the debounced value
\* takes the value of the input.
Tick(d) ==
  /\ timer > 0
  /\ IF timer > d
     THEN /\ timer' = timer - d
          /\ UNCHANGED <<debouncedSearchQuery, searchParams, queries>>
     ELSE /\ timer' = 0
          /\ debouncedSearchQuery' = searchQuery
          /\ Render(pagination, statusFilter, searchQuery, sorting)
  /\ snackbar' = "none"
  /\ UNCHANGED <<pageVersion, searchQuery, statusFilter, pagination, sorting, server,
                 mutation>>

\* A handleStatusFilterChange that leaves the page index as it is.
handleStatusFilterChangeKeepingPage(value) ==
  /\ ~ErrorShown
  /\ statusFilter' = value
  /\ Render(pagination, value, debouncedSearchQuery, sorting)
  /\ snackbar' = "none"
  /\ UNCHANGED <<pageVersion, searchQuery, pagination, sorting, debouncedSearchQuery,
                 timer, server, mutation>>

handleStatusFilterChange(value) ==
  /\ ~ErrorShown
  /\ statusFilter' = value
  /\ pagination' = [pagination EXCEPT !.pageIndex = Num(0)]
  /\ Render(pagination', value, debouncedSearchQuery, sorting)
  /\ snackbar' = "none"
  /\ UNCHANGED <<pageVersion, searchQuery, sorting, debouncedSearchQuery, timer,
                 server, mutation>>

handlePaginationChange(newPagination) ==
  /\ ~ErrorShown
  /\ pagination' = newPagination
  /\ Render(newPagination, statusFilter, debouncedSearchQuery, sorting)
  /\ snackbar' = "none"
  /\ UNCHANGED <<pageVersion, searchQuery, statusFilter, sorting,
                 debouncedSearchQuery, timer, server, mutation>>

handleSortingChange(newSorting) ==
  /\ pageVersion = 2
  /\ ~ErrorShown
  /\ sorting' = newSorting
  /\ Render(pagination, statusFilter, debouncedSearchQuery, newSorting)
  /\ snackbar' = "none"
  /\ UNCHANGED <<pageVersion, searchQuery, statusFilter, pagination,
                 debouncedSearchQuery, timer, server, mutation>>

\* "Try Again" on the error panel: refetch().
handleRetry ==
  /\ pageVersion = 2
  /\ ErrorShown
  /\ Refetch(queries[ListKey(CurrentParams)]).abandoned <= MaxAbandoned
  /\ queries' = [queries EXCEPT ![ListKey(CurrentParams)] = Refetch(@)]
  /\ snackbar' = "none"
  /\ UNCHANGED <<pageVersion, searchParams, viewVars, server, mutation>>

\* "Reset Filters" on the error panel.
ResetFilters ==
  /\ pageVersion = 2
  /\ ErrorShown
  /\ searchQuery' = ""
  /\ statusFilter' = "all"
  /\ pagination' = [pageIndex |-> Num(0), pageSize |-> Num(10)]
  /\ timer' = IF searchQuery # "" THEN DebounceDelay ELSE timer
  /\ Render(pagination', "all", debouncedSearchQuery, sorting)
  /\ snackbar' = "none"
  /\ UNCHANGED <<pageVersion, sorting, debouncedSearchQuery, server, mutation>>

\* ----------------------------------------------------------- list fetches
\* The response of the request of the running fetch of key arrives and is
\* stored.
FetchSucceed(key) ==
  /\ key \in DOMAIN queries
  /\ queries[key].fetching
  /\ queries[key].wait = 0
  /\ queries' = [queries EXCEPT ![key] =
       [@ EXCEPT !.data = Some(ServerPage(FetchUsersRequest(key), server)),
                 !.invalidated = FALSE, !.elapsed = FALSE, !.fetching = FALSE,
                 !.error = None, !.outcome = None,
                 !.failureCount = 0, !.failureReason = None]]
  /\ snackbar' = "none"
  /\ UNCHANGED <<pageVersion, searchParams, viewVars, server, mutation>>

\* staleTime elapses since the data of key was written.
StaleTime(key) ==
  /\ key \in DOMAIN queries
  /\ queries[key].data # None
  /\ ~queries[key].elapsed
  /\ queries' = [queries EXCEPT ![key].elapsed = TRUE]
  /\ snackbar' = "none"
  /\ UNCHANGED <<pageVersion, searchParams, viewVars, server, mutation>>

\* The request of the running fetch of key fails: the fetch waits and tries
\* again, or it ends and the query, which keeps its data, carries the error.
FetchFail(key, outcome) ==
  /\ key \in DOMAIN queries
  /\ queries[key].fetching
  /\ queries[key].wait = 0
  /\ fetchUsers(outcome) # None
  /\ queries' = [queries EXCEPT ![key] =
       IF ShouldRetryQuery(@.failureCount, fetchUsers(outcome)[1])
       THEN [@ EXCEPT !.failureCount = @ + 1, !.failureReason = fetchUsers(outcome),
                      !.outcome = Some(outcome),
                      !.wait = RetryDelay(queries[key].failureCount)]
       ELSE [@ EXCEPT !.fetching = FALSE, !.error = fetchUsers(outcome),
                      !.outcome = Some(outcome),
                      !.failureCount = 0, !.failureReason = None]]
  /\ snackbar' = "none"
  /\ UNCHANGED <<pageVersion, searchParams, viewVars, server, mutation>>

\* The wait of the running fetch of key is over: the next request is issued.
RetryFetch(key) ==
  /\ key \in DOMAIN queries
  /\ queries[key].fetching
  /\ queries[key].wait > 0
  /\ queries' = [queries EXCEPT ![key].wait = 0]
  /\ snackbar' = "none"
  /\ UNCHANGED <<pageVersion, searchParams, viewVars, server, mutation>>

\* The response of a request of a cancelled fetch of key arrives and is ignored.
DropResponse(key) ==
  /\ key \in DOMAIN queries
  /\ queries[key].abandoned > 0
  /\ queries' = [queries EXCEPT ![key].abandoned = @ - 1]
  /\ snackbar' = "none"
  /\ UNCHANGED <<pageVersion, searchParams, viewVars, server, mutation>>

\* The cache drops a query that no observer watches and that is not fetching.
Collect(key) ==
  /\ key \in DOMAIN queries
  /\ key # ListKey(CurrentParams)
  /\ ~queries[key].fetching
  /\ queries' = [k \in DOMAIN queries \ {key} |-> queries[k]]
  /\ snackbar' = "none"
  /\ UNCHANGED <<pageVersion, searchParams, viewVars, server, mutation>>

\* A component renders useUsers(params): the hook observes the query of the
\* key of params and the cache fetches it when it has no entry for that key.
useUsers(params) ==
  /\ CanObserve(ListKey(params))
  /\ queries' = ObserveQuery(queries, ListKey(params))
  /\ snackbar' = "none"
  /\ UNCHANGED <<pageVersion, searchParams, viewVars, server, mutation>>

\* -------------------------------------------------------- mutation actions
\* A click on the action of the row of userId: UserActions asks for the
\* opposite of the status it shows, handleToggleStatus calls mutate, and
\* onMutate runs.  Rows show a progress indicator while a mutation is pending.
\* A row action that stays in place while a mutation is pending: a click on
\* it starts a mutation whatever the state of the one before.
handleToggleStatusWhilePending(userId) ==
  /\ \E i \in DOMAIN RenderedUsers :
       /\ RenderedUsers[i].userId = userId
       /\ LET newStatus == IF RenderedUsers[i].status = "active" THEN "inactive" ELSE "active"
              r == OnMutate(queries, HookParams, userId, newStatus)
          IN /\ queries' = r.queries
             /\ mutation' = [phase |-> "onMutate", userId |-> Some(userId),
                             status |-> Some(newStatus), context |-> r.context,
                             requests |-> 0, other |-> None]
  /\ snackbar' = "none"
  /\ UNCHANGED <<pageVersion, searchParams, viewVars, server>>

handleToggleStatus(userId) ==
  /\ ~isUpdating
  /\ \E i \in DOMAIN RenderedUsers :
       /\ RenderedUsers[i].userId = userId
       /\ LET newStatus == IF RenderedUsers[i].status = "active" THEN "inactive" ELSE "active"
              r == OnMutate(queries, HookParams, userId, newStatus)
          IN /\ queries' = r.queries
             /\ mutation' = [phase |-> "onMutate", userId |-> Some(userId),
                             status |-> Some(newStatus), context |-> r.context,
                             requests |-> 0, other |-> None]
  /\ snackbar' = "none"
  /\ UNCHANGED <<pageVersion, searchParams, viewVars, server>>

\* mutationFn: updateUserStatus issues the PATCH request.  It runs as soon
\* as the promise of onMutate settles, before any other event is handled.
mutationFn ==
  /\ mutation.phase = "onMutate"
  /\ mutation' = [mutation EXCEPT !.phase = "request", !.requests = @ + 1]
  /\ snackbar' = "none"
  /\ UNCHANGED <<pageVersion, searchParams, viewVars, queries, server>>

\* The PATCH succeeds: the server stores a status (the requested one, or its
\* own) and returns the record; onSuccess of the hook runs, then the
\* onSuccess of handleToggleStatus.
PatchSucceed(serverStatus) ==
  /\ mutation.phase = "request"
  /\ server' = [server EXCEPT ![mutation.userId[1]] = serverStatus]
  /\ queries' = OnSuccess(queries, HookParams, ServerUser(server', mutation.userId[1]))
  /\ mutation' = Settle(mutation)
  /\ snackbar' = "success"
  /\ UNCHANGED <<pageVersion, searchParams, viewVars>>

\* The PATCH fails: onError of the hook runs, then the onError of
\* handleToggleStatus.
PatchFail ==
  /\ mutation.phase = "request"
  /\ IF ShouldRetry(mutation.requests)
     THEN /\ mutation' = [mutation EXCEPT !.requests = @ + 1]
          /\ snackbar' = "none"
          /\ UNCHANGED queries
     ELSE /\ queries' = OnError(queries, mutation.context)
          /\ mutation' = Settle(mutation)
          /\ snackbar' = "error"
  /\ UNCHANGED <<pageVersion, searchParams, viewVars, server>>

\* mutate of the hook is called again while the mutation it reports on is
\* pending: onMutate runs for the new mutation and its PATCH is issued.
mutateAgain(userId, status) ==
  /\ mutation.phase = "request"
  /\ mutation.other = None
  /\ LET r == OnMutate(queries, HookParams, userId, status)
     IN /\ queries' = r.queries
        /\ mutation' = [mutation EXCEPT !.other =
                          Some([userId |-> userId, status |-> status, context |-> r.context])]
  /\ snackbar' = "none"
  /\ UNCHANGED <<pageVersion, searchParams, viewVars, server>>

\* The PATCH of the other mutation fails before the first has settled:
\* onError of the hook runs with the context of the other mutation.
OtherFail ==
  /\ mutation.phase = "request"
  /\ mutation.other # None
  /\ queries' = OnError(queries, mutation.other[1].context)
  /\ mutation' = [mutation EXCEPT !.other = None]
  /\ snackbar' = "error"
  /\ UNCHANGED <<pageVersion, searchParams, viewVars, server>>

\* The PATCH of the other mutation succeeds before the first has settled.
OtherSucceed ==
  /\ mutation.phase = "request"
  /\ mutation.other # None
  /\ server' = [server EXCEPT ![mutation.other[1].userId] = mutation.other[1].status]
  /\ queries' = OnSuccess(queries, HookParams, ServerUser(server', mutation.other[1].userId))
  /\ mutation' = [mutation EXCEPT !.other = None]
  /\ snackbar' = "success"
  /\ UNCHANGED <<pageVersion, searchParams, viewVars>>

\* ---------------------------------------------------------- specification
\* The promise of onMutate has settled and mutationFn is the next thing to run.
InMicrotask == mutation.phase = "onMutate"

Next ==
  \/ mutationFn
  \/ ~InMicrotask /\ \E value \in SearchTexts : handleSearchChange(value)
  \/ ~InMicrotask /\ Tick(DebounceDelay)
  \/ ~InMicrotask /\ \E value \in KeptStatusFilters : handleStatusFilterChange(value)
  \/ ~InMicrotask /\ \E newPagination \in Paginations : handlePaginationChange(newPagination)
  \/ ~InMicrotask /\ \E key \in DOMAIN queries : FetchSucceed(key)
  \/ ~InMicrotask /\ \E key \in DOMAIN queries : StaleTime(key)
  \/ ~InMicrotask /\ \E key \in DOMAIN queries : Collect(key)
  \/ ~InMicrotask /\ \E userId \in ToggledUsers : handleToggleStatus(userId)
  \/ ~InMicrotask /\ \E serverStatus \in Statuses : PatchSucceed(serverStatus)
  \/ ~InMicrotask /\ PatchFail

\* The page with its status mutation, while the list requests succeed and
\* the table stays unsorted.
Spec == Init /\ [][Next]_vars

\* The page opened with any of the query strings, while the list requests
\* succeed and without status mutations.
NextUrl ==
  \/ \E value \in SearchTexts : handleSearchChange(value)
  \/ Tick(DebounceDelay)
  \/ \E value \in StatusFilters : handleStatusFilterChange(value)
  \/ \E newPagination \in Paginations : handlePaginationChange(newPagination)
  \/ \E newSorting \in Sortings : handleSortingChange(newSorting)
  \/ \E key \in DOMAIN queries : FetchSucceed(key)
  \/ \E key \in DOMAIN queries : Collect(key)

SpecUrl == InitUrl /\ [][NextUrl]_vars

\* The lengths of time (ms) that pass between two events of the search input.
TimeSteps == {50, DebounceDelay}

\* The search input and its debounce, with time passing in short steps.
NextDebounce ==
  \/ \E value \in SearchTexts : handleSearchChange(value)
  \/ \E d \in TimeSteps : Tick(d)
  \/ \E newPagination \in Paginations : handlePaginationChange(newPagination)
  \/ \E key \in DOMAIN queries : FetchSucceed(key)
  \/ \E key \in DOMAIN queries : Collect(key)

SpecDebounce == Init /\ [][NextDebounce]_vars

\* The list fetches of the second page with their failures and retries, and
\* the error panel, while the view moves between the pages of the list.
NextFetch ==
  \/ \E newPagination \in Paginations : handlePaginationChange(newPagination)
  \/ handleRetry
  \/ ResetFilters
  \/ \E key \in DOMAIN queries : FetchSucceed(key)
  \/ \E key \in DOMAIN queries : StaleTime(key)
  \/ \E key \in DOMAIN queries : \E outcome \in Failures : FetchFail(key, outcome)
  \/ \E key \in DOMAIN queries : RetryFetch(key)
  \/ \E key \in DOMAIN queries : DropResponse(key)
  \/ \E key \in DOMAIN queries : Collect(key)

SpecFetch == Init /\ [][NextFetch]_vars

\* The list hook called with every params object of its type, next to the
\* page.
NextKey ==
  \/ \E params \in CallerParams : useUsers(params)
  \/ \E value \in StatusFilters : handleStatusFilterChange(value)
  \/ \E newPagination \in Paginations : handlePaginationChange(newPagination)
  \/ \E key \in DOMAIN queries : FetchSucceed(key)
  \/ \E key \in DOMAIN queries : Collect(key)

SpecKey == Init /\ [][NextKey]_vars

\* The page and its query cache over time: the view moves between keys, the
\* list requests succeed, data grows stale and unwatched queries are dropped.
NextCache ==
  \/ \E value \in StatusFilters : handleStatusFilterChange(value)
  \/ \E newPagination \in Paginations : handlePaginationChange(newPagination)
  \/ \E key \in DOMAIN queries : FetchSucceed(key)
  \/ \E key \in DOMAIN queries : StaleTime(key)
  \/ \E key \in DOMAIN queries : Collect(key)

SpecCache == Init /\ [][NextCache]_vars

\* The status hook with mutate called while a mutation is pending: the view
\* stays where it is and the list requests succeed.
NextConcurrent ==
  \/ mutationFn
  \/ ~InMicrotask /\ \E key \in DOMAIN queries : FetchSucceed(key)
  \/ ~InMicrotask /\ \E userId \in Users : handleToggleStatus(userId)
  \/ ~InMicrotask /\ \E userId \in Users : \E status \in Statuses : mutateAgain(userId, status)
  \/ ~InMicrotask /\ \E serverStatus \in Statuses : PatchSucceed(serverStatus)
  \/ ~InMicrotask /\ PatchFail
  \/ ~InMicrotask /\ OtherSucceed
  \/ ~InMicrotask /\ OtherFail

SpecConcurrent == Init /\ [][NextConcurrent]_vars

\* The list fetch of the page with every failure of its request: the fetch
\* is retried, ends in the error panel and is started again from there.
NextApi ==
  \/ handleRetry
  \/ \E key \in DOMAIN queries : FetchSucceed(key)
  \/ \E key \in DOMAIN queries : \E outcome \in Outcomes : FetchFail(key, outcome)
  \/ \E key \in DOMAIN queries : RetryFetch(key)

SpecApi == Init /\ [][NextApi]_vars

\* ------------------------------------------------------------------ steps
\* The steps of a status mutation, told by the phase of the mutation.
MutateStep == mutation.phase = "idle" /\ mutation'.phase = "onMutate"
IssueStep == mutation.phase = "onMutate" /\ mutation'.phase = "request"
SuccessStep == mutation.phase = "request" /\ snackbar' = "success"
FailureStep == mutation.phase = "request" /\ mutation' # mutation /\ snackbar' # "success"

\* The record of userId in a list payload differs from rec in nothing but its status.
SameButStatus(a, b) ==
  /\ DOMAIN a = DOMAIN b
  /\ \A f \in DOMAIN a \ {"status"} : a[f] = b[f]

\* ----------------------------------------------------------------- claims
\* C1: when a status mutation starts with list params and the entry for those
\* params is present, the optimistic update replaces only the status of the
\* record whose userId matches: every other record, every other field of the
\* matching record, the order of the records and totalCount are unchanged.
C1_OptimisticUpdateFrame ==
  [][ (MutateStep /\ pageVersion = 2) =>
        LET key == ListKey(CurrentParams)
            before == GetQueryData(queries, key)
            after == GetQueryData(queries', key)
            userId == mutation'.userId[1]
        IN before # None =>
             /\ after # None
             /\ after[1].totalCount = before[1].totalCount
             /\ DOMAIN after[1] = DOMAIN before[1]
             /\ Len(after[1].users) = Len(before[1].users)
             /\ \A i \in DOMAIN before[1].users :
                  LET old == before[1].users[i]
                      new == after[1].users[i]
                  IN IF old.userId = userId
                     THEN SameButStatus(new, old) /\ new.status = mutation'.status[1]
                     ELSE new = old ]_vars

\* A mutation has started on an entry of two records: the status of the
\* record of u1 is the requested one and differs from the snapshot's.
C1_Witness ==
  /\ pageVersion = 2
  /\ mutation.phase = "onMutate"
  /\ mutation.context.previousData # None
  /\ Len(mutation.context.previousData[1].users) = 2
  /\ LET after == GetQueryData(queries, ListKey(mutation.context.params[1]))
     IN /\ after # None
        /\ after[1].users[1].status = mutation.status[1]
        /\ after[1].users[1].status # mutation.context.previousData[1].users[1].status
        /\ after[1].users[2] = mutation.context.previousData[1].users[2]

\* C2: the snapshot of a mutation is the entry as it was right before the
\* optimistic update, it is kept while the mutation is pending, and when the
\* request fails the entry for the snapshot's params equals the snapshot
\* (it is absent if it was absent), whatever was written in between.
C2_RollbackRestoresSnapshot ==
  [][ /\ (MutateStep /\ pageVersion = 2) =>
            /\ mutation'.context.params = Some(CurrentParams)
            /\ mutation'.context.previousData = GetQueryData(queries, ListKey(CurrentParams))
      /\ (mutation.phase # "idle" /\ mutation'.phase # "idle") =>
            mutation'.context = mutation.context
      /\ (FailureStep /\ mutation.context.params # None) =>
            GetQueryData(queries', ListKey(mutation.context.params[1]))
              = mutation.context.previousData ]_vars

\* The request of a mutation of the second page has just failed, and the
\* entry of the list shows the status the server holds for u1.
C2_Witness ==
  /\ pageVersion = 2
  /\ snackbar = "error"
  /\ mutation.phase = "idle"
  /\ \E key \in DOMAIN queries :
       /\ queries[key].data # None
       /\ Len(queries[key].data[1].users) > 0
       /\ queries[key].data[1].users[1] = ServerUser(server, "u1")

\* C3: when the PATCH succeeds with a record whose status differs from the
\* requested one, the entry for the params the mutation started with holds
\* the server's status for that user once onSuccess has run.
C3_ServerStatusWins ==
  [][ (SuccessStep /\ mutation.context.params # None
         /\ server'[mutation.userId[1]] # mutation.status[1]) =>
        LET after == GetQueryData(queries', ListKey(mutation.context.params[1]))
        IN after # None =>
             \A i \in DOMAIN after[1].users :
               after[1].users[i].userId = mutation.userId[1] =>
                 after[1].users[i].status = server'[mutation.userId[1]] ]_vars

\* C4: onSuccess merges the server's record into the entry of the params the
\* snapshot was taken under and writes no other entry, also when the view has
\* moved to other params while the request was pending.
C4_MergeAtSnapshotParams ==
  [][ (SuccessStep /\ mutation.context.params # None) =>
        LET key == ListKey(mutation.context.params[1])
            before == GetQueryData(queries, key)
            updatedUser == ServerUser(server', mutation.userId[1])
        IN /\ before # None =>
                GetQueryData(queries', key) = Some(MergeUser(before[1], updatedUser))
           /\ \A k \in (DOMAIN queries \cup DOMAIN queries') \ {key} :
                GetQueryData(queries', k) = GetQueryData(queries, k) ]_vars

\* C5: the success of a mutation of a hook that was given list params
\* invalidates no query and starts no list request: the cache is corrected
\* by the merge alone.
C5_NoInvalidationWithParams ==
  [][ (SuccessStep /\ HookParams # None) =>
        /\ DOMAIN queries' = DOMAIN queries
        /\ \A k \in DOMAIN queries :
             /\ queries'[k].invalidated => queries[k].invalidated
             /\ queries'[k].fetching => queries[k].fetching ]_vars

\* A mutation of the second page has just succeeded: the entry of the view
\* holds the server's record of u1 and no query is invalidated or fetching.
C5_Witness ==
  /\ pageVersion = 2
  /\ snackbar = "success"
  /\ \A k \in DOMAIN queries : ~queries[k].invalidated /\ ~queries[k].fetching
  /\ Len(RenderedUsers) > 0
  /\ RenderedUsers[1] = ServerUser(server, "u1")

\* C6: the success of a mutation of a hook that was given no list params
\* invalidates every users query of the cache: each is marked invalidated
\* or is being refetched.
C6_InvalidationWithoutParams ==
  [][ (SuccessStep /\ HookParams = None) =>
        \A k \in DOMAIN queries' :
          queries'[k].invalidated \/ queries'[k].fetching ]_vars

\* C7: once the PATCH has been issued the snapshot has been taken and the
\* entry of the mutation's params shows the requested status for the user;
\* in no state is the request out while the cache shows another status.
C7_OptimisticWhileRequestPending ==
  (mutation.phase = "request" /\ mutation.context.params # None) =>
    LET entry == GetQueryData(queries, ListKey(mutation.context.params[1]))
    IN /\ mutation.context.previousData # None
       /\ entry # None =>
            \A i \in DOMAIN entry[1].users :
              entry[1].users[i].userId = mutation.userId[1] =>
                entry[1].users[i].status = mutation.status[1]

\* C8: an invocation issues one PATCH and no more; when the request fails the
\* mutation ends at once, the entry of the snapshot is restored if there is
\* a snapshot, and the error reaches the onError of the caller in both cases.
C8_OneRequestNoRetry ==
  [][ /\ mutation'.requests <= 1
      /\ IssueStep => mutation'.requests = 1
      /\ (mutation.phase = "request" /\ mutation'.phase = "idle") => mutation.requests = 1
      /\ FailureStep =>
           /\ mutation'.phase = "idle"
           /\ snackbar' = "error"
           /\ queries' = OnError(queries, mutation.context) ]_vars

\* The request of a mutation of the first page, which has no snapshot, has
\* just failed and the caller has shown its error.
C8_Witness ==
  /\ pageVersion = 1
  /\ snackbar = "error"
  /\ mutation.phase = "idle"
  /\ Len(RenderedUsers) > 0
  /\ RenderedUsers[1] = ServerUser(server, "u1")

\* The view state the URL stands for: the debounced search text, the status
\* filter, the pagination and the sorting.
ViewState ==
  [searchQuery |-> debouncedSearchQuery, statusFilter |-> statusFilter,
   pagination |-> pagination, sorting |-> sorting]

\* The normal form of a view state: a status filter outside the three known
\* ones is "all", a page index that is no number or is negative is 0, a page
\* size that is no number is the default, and the sorting keeps its first
\* criterion.
Normalize(s) ==
  [searchQuery |-> s.searchQuery,
   statusFilter |-> IF s.statusFilter \in StatusFilters THEN s.statusFilter ELSE "all",
   pagination |->
     [pageIndex |-> IF s.pagination.pageIndex = NaN THEN Num(0)
                    ELSE MathMax0(s.pagination.pageIndex),
      pageSize |-> IF s.pagination.pageSize = NaN THEN Num(DefaultPageSize)
                   ELSE s.pagination.pageSize],
   sorting |-> IF Len(s.sorting) > 0 THEN <<s.sorting[1]>> ELSE <<>>]

\* C9: in every state the page reaches, decoding the URL the sync effect
\* wrote for the view state gives the normal form of that view state.
C9_UrlRoundTrip ==
  /\ searchParams = Encode(pagination, statusFilter, debouncedSearchQuery, sorting)
  /\ Decode(searchParams, pageVersion) = Normalize(ViewState)

\* C10: the status filter of the view is always one of all, active and
\* inactive, and no list request carries another status.
C10_StatusFilterIsKnown ==
  /\ statusFilter \in StatusFilters
  /\ \A key \in DOMAIN queries :
       queries[key].fetching =>
         FetchUsersRequest(key).status \in {None, Some("active"), Some("inactive")}

\* A parameter value that is an integer numeral: an optional sign, then
\* digits and nothing else.
IsIntegerText(s) ==
  LET digits == IF s # <<>> /\ Head(s) \in {"-", "+"} THEN Tail(s) ELSE s
  IN digits # <<>> /\ \A i \in DOMAIN digits : IsDigit(digits[i])

\* C11: the page index decoded from the page parameter of the URL is an
\* integer that is at least 0, whatever the parameter holds, and it is the
\* page minus 1 when the parameter is an integer of at least 1.
C11_PageIndexClamped ==
  LET page == GetOr(searchParams.page, <<>>, <<"1">>)
      index == Decode(searchParams, pageVersion).pagination.pageIndex
  IN /\ pagination.pageIndex # NaN /\ pagination.pageIndex[1] >= 0
     /\ index # NaN /\ index[1] >= 0
     /\ (IsIntegerText(page) /\ ParseInt(page)[1] >= 1) =>
          index = Num(ParseInt(page)[1] - 1)

\* C12: the page size decoded from the pageSize parameter of the URL is the
\* parsed integer when the parameter is an integer numeral, and the default
\* 10 when the parameter is missing or is no integer numeral.
C12_PageSizeDefault ==
  LET size == Decode(searchParams, pageVersion).pagination.pageSize
  IN /\ pagination.pageSize # NaN
     /\ IF searchParams.pageSize # None /\ IsIntegerText(searchParams.pageSize[1])
        THEN size = ParseInt(searchParams.pageSize[1])
        ELSE size = Num(DefaultPageSize)

\* C13: the sort is never partial: a URL with only one of sortBy and
\* sortOrder decodes to no sort, the URL the page writes carries both or
\* neither, and so does every list request.
C13_SortNeverPartial ==
  /\ \A u \in MountUrls :
       (u.sortBy = None \/ u.sortOrder = None) => Decode(u, pageVersion).sorting = <<>>
  /\ (searchParams.sortBy = None) <=> (searchParams.sortOrder = None)
  /\ (searchParams.sortBy = None) <=> (sorting = <<>>)
  /\ \A key \in DOMAIN queries :
       (FetchUsersRequest(key).sortBy = None) <=> (FetchUsersRequest(key).sortOrder = None)

\* The table is sorted: the URL carries sortBy and sortOrder, and the list
\* request in flight for the view carries both.
C13_Witness ==
  /\ pageVersion = 2
  /\ sorting # <<>>
  /\ searchParams.sortBy # None /\ searchParams.sortOrder # None
  /\ ListKey(CurrentParams) \in DOMAIN queries
  /\ queries[ListKey(CurrentParams)].fetching
  /\ FetchUsersRequest(ListKey(CurrentParams)).sortBy # None
  /\ FetchUsersRequest(ListKey(CurrentParams)).sortOrder # None

\* C14: the URL the page writes always carries the 1-based page and the
\* page size; it carries the status exactly when the status filter is not
\* "all" and the search text exactly when the debounced query is not empty.
C14_EncodedParameters ==
  /\ searchParams.page = Some(NumToString(Add1(pagination.pageIndex)))
  /\ searchParams.pageSize = Some(NumToString(pagination.pageSize))
  /\ searchParams.status = IF statusFilter # "all" THEN Some(statusFilter) ELSE None
  /\ searchParams.search = IF debouncedSearchQuery # "" THEN Some(debouncedSearchQuery) ELSE None

\* The second page of the active users without a search: the URL carries
\* page 2, the page size and the status, and no search text.
C14_Witness ==
  /\ pagination.pageIndex = Num(1)
  /\ searchParams.page = Some(<<"2">>)
  /\ searchParams.pageSize = Some(<<"1", "0">>)
  /\ statusFilter = "active"
  /\ searchParams.status = Some("active")
  /\ debouncedSearchQuery = ""
  /\ searchParams.search = None

\* C15: after the mount the URL is the encoding of the view state with the
\* debounced query: its search text is the query of the list query the view
\* watches, never a text of the input that has not passed the debounce.
C15_UrlFollowsDebouncedState ==
  /\ searchParams = Encode(pagination, statusFilter, debouncedSearchQuery, sorting)
  /\ ListKey(CurrentParams) \in DOMAIN queries
  /\ Some(GetOr(searchParams.search, "", "")) = ListKey(CurrentParams).query
  /\ (timer > 0 /\ searchQuery # debouncedSearchQuery) =>
       searchParams.search # Some(searchQuery)

\* A text has been typed and the debounce delay has not passed: the URL and
\* the list query still have no search text, and the page is reset to 1.
C15_Witness ==
  /\ searchQuery = "a"
  /\ debouncedSearchQuery = ""
  /\ timer > 0
  /\ searchParams.search = None
  /\ searchParams.page = Some(<<"1">>)
  /\ ListKey(CurrentParams).query = Some("")

\* C16: the debounced value changes only when the input has stayed
\* unchanged for the full delay, and then takes the text of the input; every
\* change of the input restarts the delay and changes nothing else, so inputs
\* at 0, 50 and 100 ms give one emission, 300 ms after the last of them.
\* DebounceDelay - timer is the time since the last change of the input.
C16_DebounceTrailingEdge ==
  [][ /\ searchQuery' # searchQuery =>
           timer' = DebounceDelay /\ debouncedSearchQuery' = debouncedSearchQuery
      /\ debouncedSearchQuery' # debouncedSearchQuery =>
           /\ searchQuery' = searchQuery
           /\ timer > 0 /\ timer' = 0
           /\ debouncedSearchQuery' = searchQuery
      /\ (searchQuery' = searchQuery /\ timer' # timer) =>
           /\ \E d \in TimeSteps : timer' = IF timer > d THEN timer - d ELSE 0
           /\ timer' = 0 => debouncedSearchQuery' = searchQuery
      /\ timer' = 0 => debouncedSearchQuery' = searchQuery' ]_vars

\* 250 ms after the last change of the input its text has not been handed on.
C16_Witness ==
  /\ timer = 50
  /\ searchQuery = "a"
  /\ debouncedSearchQuery = ""
  /\ searchParams.search = None

\* The requests that are out for a query: the one of its running fetch,
\* unless the fetch is waiting, and those of its cancelled fetches.
RequestsOut(q) == q.abandoned + (IF q.fetching /\ q.wait = 0 THEN 1 ELSE 0)

\* A step in which the running fetch of key fails and goes on to wait for
\* its next attempt, and one in which a fetch of key ends.
RetryStep(key) ==
  /\ key \in DOMAIN queries /\ key \in DOMAIN queries'
  /\ queries[key].fetching /\ queries'[key].fetching
  /\ queries'[key].failureCount = queries[key].failureCount + 1
FetchEndStep(key) ==
  /\ key \in DOMAIN queries /\ key \in DOMAIN queries'
  /\ queries[key].fetching /\ ~queries'[key].fetching

\* C17: at no time are two requests out for the same list params, whatever
\* asks for the list while a request for it is out; the requests of
\* different params are issued and answered one independently of the other.
C17_SingleFlight ==
  \A key \in DOMAIN queries : RequestsOut(queries[key]) <= 1

\* C18: a failed list fetch is tried again at most 3 times, after waits of
\* 500, 1000 and 2000 ms; a fetch that succeeds after two failures stores
\* the payload, and a fetch that ends in failure hands on the last error.
C18_RetryBackoff ==
  [][ \A key \in DOMAIN queries :
        /\ RetryStep(key) =>
             /\ queries'[key].failureCount <= 3
             /\ queries'[key].wait = 500 * Pow2(queries[key].failureCount)
        /\ (FetchEndStep(key) /\ queries'[key].error = None) =>
             queries'[key].data = Some(ServerPage(FetchUsersRequest(key), server))
        /\ (FetchEndStep(key) /\ queries'[key].error # None) =>
             queries'[key].error = fetchUsers(queries'[key].outcome[1]) ]_vars

\* A request that was answered with a 4xx response.
ClientRejection(outcome) ==
  outcome.response # None /\ outcome.response[1].status \in 400..499

\* C19: a list fetch that fails with a 4xx response is not tried again, and
\* one whose first attempt fails in another way is.
C19_NoRetryOfClientRejection ==
  [][ \A key \in DOMAIN queries :
        /\ RetryStep(key) => ~ClientRejection(queries'[key].outcome[1])
        /\ (FetchEndStep(key) /\ queries[key].failureCount = 0
                              /\ queries'[key].error # None) =>
             ClientRejection(queries'[key].outcome[1]) ]_vars

\* C20: the key of the list query is canonical: params objects that lead to
\* the same list request (status 'all' like no status, an empty query like
\* no query, undefined sort properties like none, the properties in any
\* order) have the same key, so the cache holds one entry for one request.
C20_CanonicalKey ==
  \A key1, key2 \in DOMAIN queries :
    FetchUsersRequest(key1) = FetchUsersRequest(key2) => key1 = key2

\* C21: a status mutation that starts with list params cancels the list
\* fetches in flight before it takes the snapshot: when onMutate has run no
\* fetch of the targeted entry is running, so none can write the entry
\* after the optimistic update.
C21_FetchesCancelledAtMutate ==
  [][ (MutateStep /\ mutation'.context.params # None) =>
        LET key == ListKey(mutation'.context.params[1])
        IN key \in DOMAIN queries' => ~queries'[key].fetching ]_vars

\* C22: a status mutation started with list params reads and writes only
\* the entry of those params when it starts, when it is rolled back and when
\* it is confirmed: no entry of another key appears, goes or changes its
\* payload in those steps, also when it holds the same user.
C22_OnlyEntryOfStartParams ==
  [][ \A started \in {mutation, mutation'} :
        ( /\ started.context.params # None
          /\ \/ MutateStep /\ started = mutation'
             \/ (SuccessStep \/ FailureStep) /\ started = mutation ) =>
          LET key == ListKey(started.context.params[1])
          IN /\ DOMAIN queries' \ {key} = DOMAIN queries \ {key}
             /\ \A other \in DOMAIN queries \ {key} :
                  queries'[other].data = queries[other].data ]_vars

\* A step in which the view moves to another key: useUsers starts to watch it.
WatchedKey == ListKey(CurrentParams)
WatchStep == WatchedKey' # WatchedKey

\* C23: when useUsers starts to watch a key whose entry is present and fresh
\* (written within staleTime and not invalidated) it takes the entry as it
\* is and no request is issued; for a key with no entry or a stale one
\* exactly one request is out, and when it is answered the payload of the
\* server is stored under that key as a fresh entry.
C23_FreshFromCacheElseOneRequest ==
  [][ /\ WatchStep =>
           LET key == WatchedKey'
               before == IF key \in DOMAIN queries THEN queries[key] ELSE NewQuery
           IN /\ key \in DOMAIN queries'
              /\ queries'[key].data = before.data
              /\ IF IsStale(before)
                 THEN queries'[key].fetching /\ RequestsOut(queries'[key]) = 1
                 ELSE queries'[key] = before
      /\ \A key \in DOMAIN queries :
           FetchEndStep(key) =>
             /\ queries'[key].data = Some(ServerPage(FetchUsersRequest(key), server))
             /\ ~IsStale(queries'[key])
             /\ RequestsOut(queries'[key]) = 0 ]_vars

\* The view is on the first page, whose entry is fresh and has no request
\* out, while the cache holds the entry of the second page: the view has
\* been to the second page and is back on the cached first page.
C23_Witness ==
  /\ pagination.pageIndex = Num(0)
  /\ queries[WatchedKey].data # None
  /\ ~IsStale(queries[WatchedKey])
  /\ RequestsOut(queries[WatchedKey]) = 0
  /\ \E other \in DOMAIN queries : other.page = Some(Num(2)) /\ queries[other].data # None

\* C24: the merge on success replaces the fields of the one record whose
\* userId is that of the record the server returned: the other records, the
\* order of the records and totalCount are unchanged, and an entry without
\* such a record keeps its records.
C24_MergeFrame ==
  [][ (SuccessStep /\ pageVersion = 2) =>
        LET before == GetQueryData(queries, WatchedKey)
            after == GetQueryData(queries', WatchedKey)
            updatedUser == ServerUser(server', mutation.userId[1])
        IN before # None =>
             /\ after # None
             /\ DOMAIN after[1] = DOMAIN before[1]
             /\ after[1].totalCount = before[1].totalCount
             /\ Len(after[1].users) = Len(before[1].users)
             /\ \A i \in DOMAIN before[1].users :
                  IF before[1].users[i].userId = updatedUser.userId
                  THEN after[1].users[i] = updatedUser
                  ELSE after[1].users[i] = before[1].users[i] ]_vars

\* A mutation has just been confirmed with a status that is not the one the
\* entry showed: the entry on view holds two records, the first with the
\* status of the server and the second as the server has it.
C24_Witness ==
  /\ pageVersion = 2
  /\ snackbar = "success"
  /\ server.u1 = "active"
  /\ LET entry == GetQueryData(queries, WatchedKey)
     IN /\ entry # None
        /\ Len(entry[1].users) = 2
        /\ entry[1].users[1] = ServerUser(server, "u1")
        /\ entry[1].users[2] = ServerUser(server, "u2")

\* C25: when the cache has no entry for the list params of the mutation,
\* neither the optimistic update nor the merge on success makes one: the
\* entry is absent after onMutate and after onSuccess as it was before.
C25_NoEntryFromNothing ==
  [][ /\ (MutateStep /\ pageVersion = 2 /\ GetQueryData(queries, WatchedKey) = None) =>
           /\ queries' = queries
           /\ mutation'.context.previousData = None
      /\ (SuccessStep /\ pageVersion = 2 /\ GetQueryData(queries, WatchedKey) = None) =>
           queries' = queries ]_vars

\* A mutation has just been confirmed while the list on view, to which the
\* view moved when the request was out, has no data yet.
C25_Witness ==
  /\ pageVersion = 2
  /\ snackbar = "success"
  /\ mutation.phase = "idle"
  /\ GetQueryData(queries, WatchedKey) = None
  /\ queries[WatchedKey].fetching

\* Steps in which one of two pending mutations fails: the first started,
\* and the other.
FirstFailsStep ==
  /\ mutation.phase = "request" /\ mutation.other # None
  /\ mutation' = Settle(mutation)
  /\ snackbar' = "error"
OtherFailsStep ==
  /\ mutation.phase = "request" /\ mutation.other # None
  /\ mutation' = [mutation EXCEPT !.other = None]
  /\ snackbar' = "error"

\* C26: the rollback is a full replace with the snapshot of the mutation
\* that fails: when two mutations are pending on one key and one of them
\* fails, the entry is the payload captured when that one started, and the
\* optimistic edit of the other, started later and still pending, is gone.
C26_LastSnapshotWins ==
  [][ /\ (FirstFailsStep /\ mutation.context.previousData # None) =>
           GetQueryData(queries', ListKey(mutation.context.params[1]))
             = mutation.context.previousData
      /\ (OtherFailsStep /\ mutation.other[1].context.previousData # None) =>
           GetQueryData(queries', ListKey(mutation.other[1].context.params[1]))
             = mutation.other[1].context.previousData ]_vars

\* The first of two mutations has just failed and the second, on the other
\* user, is still pending: the entry is the list as it was before both, and
\* does not show the status the pending mutation asked for.
C26_Witness ==
  /\ pageVersion = 2
  /\ snackbar = "error"
  /\ mutation.phase = "request"
  /\ mutation.userId = Some("u2")
  /\ mutation.context.previousData # None
  /\ mutation.context.previousData[1].users[1].status # server.u1
  /\ LET entry == GetQueryData(queries, WatchedKey)
     IN /\ entry # None
        /\ entry[1].users[1].status = server.u1
        /\ entry[1].users[2].status # mutation.status[1]

\* The error of the last failed request of a query: the reason of the
\* failure while the fetch goes on, the error of the query when it has ended.
LastError(q) == IF q.fetching THEN q.failureReason[1] ELSE q.error[1]

\* C27: every failure that fetchUsers and updateUserStatus surface shows its
\* kind: no response is an ApiError of status 0, the timeout is a timeout
\* error that is retried like a transport failure, a 4xx and a 5xx response
\* are ApiErrors with the status of the response, and a success body that
\* does not parse is a parse error.
C27_FailureKinds ==
  \A key \in DOMAIN queries :
    queries[key].outcome # None =>
      LET outcome == queries[key].outcome[1]
          error == LastError(queries[key])
      IN /\ error = fetchUsers(outcome)[1]
         /\ error.name = updateUserStatus(outcome)[1].name
         /\ error.status = updateUserStatus(outcome)[1].status
         /\ outcome.rejected = Some("TypeError") =>
              error.name = "ApiError" /\ error.status = Some(0)
         /\ outcome.rejected = Some("TimeoutError") =>
              error.name = "TimeoutError" /\ ShouldRetryQuery(0, error)
         /\ (outcome.response # None /\ outcome.response[1].status \in 400..599) =>
              error.name = "ApiError" /\ error.status = Some(outcome.response[1].status)
         /\ (outcome.response # None /\ Ok(outcome.response[1])) =>
              error.name = "SyntaxError"

\* C28: for every response that is not 2xx, with a JSON body, with a body
\* that is not JSON, with no body or with a body that does not parse, the
\* error thrown is an ApiError with the status of the response; its message
\* is the message of the body when there is one and '<context>:
\* <statusText>' otherwise.
C28_ApiErrorForEveryErrorResponse ==
  \A key \in DOMAIN queries :
    (queries[key].outcome # None /\ queries[key].outcome[1].response # None
       /\ ~Ok(queries[key].outcome[1].response[1])) =>
      LET response == queries[key].outcome[1].response[1]
          error == LastError(queries[key])
          body == JsonParse(response.body)
          hasMessage == /\ response.contentType \in JsonContentTypes
                        /\ body.ok
                        /\ body.value.message # None
                        /\ body.value.message[1] # ""
      IN /\ error.name = "ApiError"
         /\ error.status = Some(response.status)
         /\ error.statusText = Some(response.statusText)
         /\ error.message = IF hasMessage THEN body.value.message[1]
                            ELSE "Failed to fetch users: " \o response.statusText

\* C29: while a status mutation started from the page is pending no second
\* one is started from a row: every row shows the progress indicator in
\* place of its action, so one optimistic edit at most is in flight.
C29_OneMutationFromRows ==
  [][ /\ (mutation' # mutation /\ mutation'.phase = "onMutate") =>
           mutation.phase = "idle" /\ UserActions = "IconButton"
      /\ mutation'.phase # "idle" =>
           UserActions' = "CircularProgress" /\ mutation'.other = None ]_vars

\* The first UsersPage shows its two rows while the PATCH of a mutation is
\* out: both rows render the progress indicator.
C29_Witness ==
  /\ pageVersion = 1
  /\ mutation.phase = "request"
  /\ UserActions = "CircularProgress"
  /\ Len(RenderedUsers) = 2

====
